---- MODULE Spec2Model ----
(***************************************************************************)
(* Model of app.py: the meeting-notes summarizer's request handlers        *)
(* (/generate, /download, /send_email), the recipient parser and the SMTP  *)
(* session of send_email_smtp.                                             *)
(*                                                                         *)
(* Python strings are sequences of one-character strings.  Python values   *)
(* that may arrive in a JSON body are records [t |-> type, v |-> payload]. *)
(***************************************************************************)
EXTENDS Integers, Sequences, FiniteSets, TLC

VARIABLES
    \* ---- parse_recipients called on its own
    raw,            \* the argument of parse_recipients
    parsed,         \* its return value
    ppc,            \* "call" | "done"
    \* ---- module-level configuration (read from the environment at import)
    groq_client,    \* TRUE iff GROQ_API_KEY was set
    SMTP_HOST, SMTP_PORT, SMTP_USERNAME, SMTP_PASSWORD,
    \* ---- /generate, one entry per worker thread
    uploads,        \* the upload directory: sanitized filename -> content
    gpc,            \* position of each worker in generate()
    greq,           \* the request each worker is serving
    transcript,     \* generate()'s local variable
    gresp,          \* the response each worker produced
    \* ---- /send_email and /download
    mpc,            \* position in send_email() / send_email_smtp()
    mreq,           \* the request being served
    recipients,     \* send_email()'s local variable
    server,         \* "none" | "SMTP" | "SMTP_SSL"
    conn,           \* "never" | "open" | "closed"
    steps,          \* SMTP commands issued in this session, in order
    exc,            \* exception in flight in send_email_smtp ("" = none)
    outbox,         \* messages the SMTP server accepted
    mresp           \* the response produced

parseVars == <<raw, parsed, ppc>>
cfgVars   == <<groq_client, SMTP_HOST, SMTP_PORT, SMTP_USERNAME, SMTP_PASSWORD>>
genVars   == <<uploads, gpc, greq, transcript, gresp>>
mailVars  == <<mpc, mreq, recipients, server, conn, steps, exc, outbox, mresp>>
vars      == <<parseVars, cfgVars, genVars, mailVars>>

----------------------------------------------------------------------------
(* Python values and strings *)

Str(s)  == [t |-> "str", v |-> s]
None    == [t |-> "None", v |-> <<>>]

\* Python truthiness ("if not raw")
Truthy(x) ==
    CASE x.t = "None" -> FALSE
      [] x.t = "str"  -> Len(x.v) > 0
      [] x.t = "list" -> Len(x.v) > 0
      [] x.t = "int"  -> x.v # <<"0">>
      [] OTHER        -> TRUE

\* str.isspace()
Whitespace == {" ", "\t", "\n", "\r", "\f"}

\* str.strip()
RECURSIVE LStrip(_)
LStrip(s) == IF s # <<>> /\ Head(s) \in Whitespace THEN LStrip(Tail(s)) ELSE s

RECURSIVE RStrip(_)
RStrip(s) ==
    IF s # <<>> /\ s[Len(s)] \in Whitespace
    THEN RStrip(SubSeq(s, 1, Len(s) - 1)) ELSE s

strip(s) == RStrip(LStrip(s))

\* str.lower() on the letters the model uses
LowerChar(c) ==
    CASE c = "T" -> "t" [] c = "X" -> "x" [] c = "P" -> "p"
      [] c = "D" -> "d" [] c = "F" -> "f" [] c = "A" -> "a"
      [] OTHER -> c

lower(s) == [i \in 1..Len(s) |-> LowerChar(s[i])]

\* "sep".join(list)
RECURSIVE join(_, _)
join(sep, l) ==
    IF l = <<>> THEN <<>>
    ELSE IF Len(l) = 1 THEN l[1]
    ELSE l[1] \o sep \o join(sep, Tail(l))

----------------------------------------------------------------------------
(* Recipient parser *)

\* the character class of re.split(r"[,\n;\r]+", raw)
SplitChars == {",", "\n", ";", "\r"}

\* re.split: cut at every maximal run of separator characters; a separator
\* at either end of the string yields an empty string there
RECURSIVE SkipRun(_, _)
SkipRun(s, i) ==
    IF i <= Len(s) /\ s[i] \in SplitChars THEN SkipRun(s, i + 1) ELSE i

RECURSIVE SplitFrom(_, _, _)
SplitFrom(s, i, cur) ==
    IF i > Len(s) THEN <<cur>>
    ELSE IF s[i] \in SplitChars
         THEN <<cur>> \o SplitFrom(s, SkipRun(s, i), <<>>)
         ELSE SplitFrom(s, i + 1, Append(cur, s[i]))

re_split(s) == SplitFrom(s, 1, <<>>)

\* EMAIL_REGEX = ^[^@\s]+@[^@\s]+\.[^@\s]+$ as an automaton.
\* States: 0 start, 1 in local part, 2 after '@', 3 in domain,
\*         4 after the '.', 5 in the last label (accepting).
Plain(c) == c # "@" /\ c \notin Whitespace

EmailDelta(q, c) ==
    CASE q = 0 -> IF Plain(c) THEN {1} ELSE {}
      [] q = 1 -> IF Plain(c) THEN {1} ELSE IF c = "@" THEN {2} ELSE {}
      [] q = 2 -> IF Plain(c) THEN {3} ELSE {}
      [] q = 3 -> IF Plain(c) THEN (IF c = "." THEN {3, 4} ELSE {3}) ELSE {}
      [] q = 4 -> IF Plain(c) THEN {5} ELSE {}
      [] q = 5 -> IF Plain(c) THEN {5} ELSE {}
      [] OTHER -> {}

RECURSIVE EmailRun(_, _)
EmailRun(e, n) ==
    IF n = 0 THEN {0}
    ELSE UNION {EmailDelta(q, e[n]) : q \in EmailRun(e, n - 1)}

\* the mutant: the ".tld" part is not required
EMAIL_REGEX_NoTld(e) == 3 \in EmailRun(e, Len(e)) \/ 5 \in EmailRun(e, Len(e))

\* EMAIL_REGEX.match(e); '$' also matches just before a final newline
EMAIL_REGEX(e) ==
    \/ 5 \in EmailRun(e, Len(e))
    \/ Len(e) > 0 /\ e[Len(e)] = "\n" /\ 5 \in EmailRun(e, Len(e) - 1)

NonEmptyStripped(p) == strip(p) # <<>>

\* parse_recipients: the value returned, or the exception raised
parse_recipients(x) ==
    IF ~Truthy(x) THEN [raised |-> "", val |-> <<>>]
    ELSE IF x.t # "str" THEN [raised |-> "TypeError", val |-> <<>>]
    ELSE LET parts  == re_split(x.v)
             kept   == SelectSeq(parts, NonEmptyStripped)
             emails == [i \in 1..Len(kept) |-> strip(kept[i])]
             valid  == SelectSeq(emails, EMAIL_REGEX)
         IN [raised |-> "", val |-> valid]

----------------------------------------------------------------------------
(* /generate: filename handling and text extraction *)

UPLOAD_FOLDER == <<"u", "p", "l", "o", "a", "d", "s">>

ALLOWED_EXTENSIONS ==
    { <<"t", "x", "t">>, <<"p", "d", "f">>, <<"d", "o", "c", "x">> }

HasDot(s) == \E i \in 1..Len(s) : s[i] = "."

\* s.rsplit(".", 1)[1]: the text after the last '.'
RECURSIVE rsplit1(_)
rsplit1(s) ==
    IF s = <<>> \/ s[Len(s)] = "." THEN <<>>
    ELSE Append(rsplit1(SubSeq(s, 1, Len(s) - 1)), s[Len(s)])

\* the mutant: any filename with a '.' is accepted
allowed_file_AnyExt(filename) == HasDot(filename)

allowed_file(filename) ==
    HasDot(filename) /\ lower(rsplit1(filename)) \in ALLOWED_EXTENSIONS

\* werkzeug's secure_filename on a POSIX host:
\*   path separators become spaces, whitespace-separated words are joined
\*   by '_', characters outside [A-Za-z0-9_.-] are dropped, and leading and
\*   trailing '.' and '_' are stripped
SafeChars ==
    {"a", "b", "c", "d", "e", "f", "o", "p", "t", "x",
     "A", "D", "F", "P", "T", "X", "_", ".", "-"}

ReplaceSep(s) == [i \in 1..Len(s) |-> IF s[i] = "/" THEN " " ELSE s[i]]

\* str.split(): the maximal runs of non-whitespace characters
RECURSIVE Words(_, _)
Words(s, cur) ==
    IF s = <<>> THEN (IF cur = <<>> THEN <<>> ELSE <<cur>>)
    ELSE IF Head(s) \in Whitespace
         THEN (IF cur = <<>> THEN <<>> ELSE <<cur>>) \o Words(Tail(s), <<>>)
         ELSE Words(Tail(s), Append(cur, Head(s)))

IsSafe(c) == c \in SafeChars

RECURSIVE StripDots(_)
StripDots(s) ==
    IF s # <<>> /\ Head(s) \in {".", "_"} THEN StripDots(Tail(s))
    ELSE IF s # <<>> /\ s[Len(s)] \in {".", "_"}
         THEN StripDots(SubSeq(s, 1, Len(s) - 1))
         ELSE s

secure_filename(filename) ==
    StripDots(SelectSeq(join(<<"_">>, Words(ReplaceSep(filename), <<>>)), IsSafe))

\* os.path.join(app.config["UPLOAD_FOLDER"], filename)
path_join(dir, filename) == dir \o <<"/">> \o filename

\* extract_text_from_file: reads the file now stored at filepath.  A .txt
\* file is decoded ignoring errors; PdfReader / docx.Document raise on a
\* file that is not well formed.
extract_text_from_file(filepath, dir) ==
    LET ext == lower(rsplit1(filepath))
        f   == dir[filepath]
    IN  CASE ext = <<"t", "x", "t">> -> [raised |-> "", val |-> f.text]
          [] ext = <<"p", "d", "f">> ->
                IF f.ok THEN [raised |-> "", val |-> f.text]
                ELSE [raised |-> "PdfReadError", val |-> <<>>]
          [] ext = <<"d", "o", "c", "x">> ->
                IF f.ok THEN [raised |-> "", val |-> f.text]
                ELSE [raised |-> "PackageNotFoundError", val |-> <<>>]
          [] OTHER -> [raised |-> "", val |-> <<>>]

\* the mutant: the empty-transcript check is dropped
TranscriptMissing_Never(t) == FALSE

\* "if not transcript"
TranscriptMissing(t) == t = <<>>

----------------------------------------------------------------------------
(* /generate: requests and responses *)

Workers == {"w1", "w2"}

\* filenames a client may send; <<>> is "no file selected"
Filenames ==
    { <<>>,
      <<"a", ".", "t", "x", "t">>,
      <<".", ".", "/", "a", ".", "t", "x", "t">>,
      <<"b", ".", "P", "D", "F">>,
      <<"c", ".", "d", "o", "c", "x">>,
      <<"a", ".", "e", "x", "e">>,
      <<".", "t", "x", "t">> }

\* file bodies: the text they hold, and whether they are well-formed
\* documents of their declared type
Contents ==
    { [text |-> <<>>,    ok |-> TRUE],
      [text |-> <<"A">>, ok |-> TRUE],
      [text |-> <<"B">>, ok |-> FALSE] }

NoContent == [text |-> <<>>, ok |-> TRUE]

\* the transcript_text form field
PastedTexts == { <<>>, <<" ">>, <<"h", "i">> }

\* a request with a file also carries pasted text, which line 126 makes the
\* handler ignore; a request without a file carries any of the pasted texts
GenRequests ==
    { [filename |-> f, content |-> c, transcript_text |-> <<"h", "i">>] :
        f \in Filenames \ {<<>>}, c \in Contents }
    \cup
    { [filename |-> <<>>, content |-> NoContent, transcript_text |-> t] :
        t \in PastedTexts }

NoGenRequest == [filename |-> <<>>, content |-> NoContent, transcript_text |-> <<>>]

NoResponse == [kind |-> "none", status |-> 0, flash |-> <<>>, body |-> <<>>]

\* redirect(url_for("index")) after flash(...)
Redirect(notice) ==
    [kind |-> "redirect", status |-> 302, flash |-> notice, body |-> <<>>]

\* an exception nobody catches: Flask answers 500
Unhandled(e) ==
    [kind |-> "exception", status |-> 500, flash |-> <<>>, body |-> <<e>>]

\* render_template("result.html", summary=..., transcript=...)
ResultPage(how, t) ==
    [kind |-> "page", status |-> 200, flash |-> <<>>, body |-> <<how>> \o t]

MsgUnsupported == <<"Only .txt, .pdf, and .docx files are supported.">>
MsgNoTranscript == <<"Please upload or paste a transcript.">>
MsgGenError(e) == <<"Error generating summary: ", e>>

\* "if file and file.filename != ''"
HasFile(r) == r.filename # <<>>

----------------------------------------------------------------------------
(* /generate: the handler, one step per access to shared state *)

GenReceive(w) ==
    /\ gpc[w] = "idle"
    /\ \E r \in GenRequests : greq' = [greq EXCEPT ![w] = r]
    /\ gpc' = [gpc EXCEPT ![w] = "start"]
    /\ transcript' = [transcript EXCEPT ![w] = <<>>]
    /\ gresp' = [gresp EXCEPT ![w] = NoResponse]
    /\ UNCHANGED <<uploads, parseVars, cfgVars, mailVars>>

\* lines 122-132 with a file, lines 122-139 without
GenUpload(w) ==
    /\ gpc[w] = "start"
    /\ LET r == greq[w]
           filename == secure_filename(r.filename)
           save_path == path_join(UPLOAD_FOLDER, filename)
           text == strip(r.transcript_text)
       IN  IF HasFile(r)
           THEN IF ~allowed_file(filename)
                THEN /\ gresp' = [gresp EXCEPT ![w] = Redirect(MsgUnsupported)]
                     /\ gpc' = [gpc EXCEPT ![w] = "done"]
                     /\ UNCHANGED <<uploads, transcript>>
                ELSE /\ uploads' = [p \in DOMAIN uploads \cup {save_path} |->
                                      IF p = save_path THEN r.content
                                      ELSE uploads[p]]
                     /\ gpc' = [gpc EXCEPT ![w] = "saved"]
                     /\ UNCHANGED <<transcript, gresp>>
           ELSE /\ transcript' = [transcript EXCEPT ![w] = text]
                /\ IF TranscriptMissing(text)
                   THEN /\ gresp' = [gresp EXCEPT ![w] = Redirect(MsgNoTranscript)]
                        /\ gpc' = [gpc EXCEPT ![w] = "done"]
                   ELSE /\ gpc' = [gpc EXCEPT ![w] = "summarize"]
                        /\ UNCHANGED gresp
                /\ UNCHANGED uploads
    /\ UNCHANGED <<greq, parseVars, cfgVars, mailVars>>

\* lines 133-139
GenExtract(w) ==
    /\ gpc[w] = "saved"
    /\ LET save_path == path_join(UPLOAD_FOLDER, secure_filename(greq[w].filename))
           r == extract_text_from_file(save_path, uploads)
       IN  IF r.raised # ""
           THEN /\ gresp' = [gresp EXCEPT ![w] = Unhandled(r.raised)]
                /\ gpc' = [gpc EXCEPT ![w] = "done"]
                /\ UNCHANGED transcript
           ELSE /\ transcript' = [transcript EXCEPT ![w] = r.val]
                /\ IF TranscriptMissing(r.val)
                   THEN /\ gresp' = [gresp EXCEPT ![w] = Redirect(MsgNoTranscript)]
                        /\ gpc' = [gpc EXCEPT ![w] = "done"]
                   ELSE /\ gpc' = [gpc EXCEPT ![w] = "summarize"]
                        /\ UNCHANGED gresp
    /\ UNCHANGED <<uploads, greq, parseVars, cfgVars, mailVars>>

\* lines 141-165: the remote call, or the stub when no client is configured
GenSummarize(w) ==
    /\ gpc[w] = "summarize"
    /\ IF groq_client
       THEN \E ok \in BOOLEAN :
              gresp' = [gresp EXCEPT ![w] =
                          IF ok THEN ResultPage("groq", transcript[w])
                          ELSE Redirect(MsgGenError("APIError"))]
       ELSE gresp' = [gresp EXCEPT ![w] = ResultPage("stub", transcript[w])]
    /\ gpc' = [gpc EXCEPT ![w] = "done"]
    /\ UNCHANGED <<uploads, greq, transcript, parseVars, cfgVars, mailVars>>

\* the response has been sent; the worker takes the next request
GenReturn(w) ==
    /\ gpc[w] = "done"
    /\ gpc' = [gpc EXCEPT ![w] = "idle"]
    /\ greq' = [greq EXCEPT ![w] = NoGenRequest]
    /\ transcript' = [transcript EXCEPT ![w] = <<>>]
    /\ gresp' = [gresp EXCEPT ![w] = NoResponse]
    /\ UNCHANGED <<uploads, parseVars, cfgVars, mailVars>>

----------------------------------------------------------------------------
(* parse_recipients called on its own *)

MaxPieces == 3

\* fragments the argument is put together from
Pieces ==
    { <<"a", "@", "b", ".", "c">>, <<"d", "@", "e", ".", "f">>,
      <<"a", "@", "b">>, <<"@", "b", ".", "c">>, <<"a", "@", "b", ".">>,
      <<"a">>, <<"@">>, <<".">>, <<" ">>, <<"\t">>,
      <<",">>, <<";">>, <<"\n">>, <<"\r">> }

RECURSIVE Concats(_)
Concats(n) ==
    IF n = 0 THEN { <<>> }
    ELSE Concats(n - 1) \cup { s \o p : s \in Concats(n - 1), p \in Pieces }

ParseInputs == {None} \cup { Str(s) : s \in Concats(MaxPieces) }

ParseCall ==
    /\ ppc = "call"
    /\ parsed' = parse_recipients(raw)
    /\ ppc' = "done"
    /\ UNCHANGED <<raw, cfgVars, genVars, mailVars>>

----------------------------------------------------------------------------
(* /send_email and /download: requests and responses *)

Absent == [t |-> "absent", v |-> <<>>]
PyInt(n) == [t |-> "int", v |-> <<n>>]
PyList(l) == [t |-> "list", v |-> l]

AddrABC == <<"a", "@", "b", ".", "c">>
AddrDEF == <<"d", "@", "e", ".", "f">>
NotAnEmail == <<"b", "a", "d">>

\* values of the recipients field that a form can carry
FormRecipients ==
    { Absent,
      Str(<<>>),
      Str(NotAnEmail),
      Str(AddrABC),
      Str(AddrABC \o <<",", " ">> \o NotAnEmail \o <<";">> \o AddrDEF),
      Str(AddrABC \o <<"\n">> \o AddrABC) }

\* values a JSON object can carry in addition
JsonRecipients ==
    FormRecipients \cup
    { None, PyInt("0"), PyInt("5"), PyList(<<>>), PyList(<<"a@b.c">>) }

NoMailRequest ==
    [route |-> "none", is_json |-> FALSE, shape |-> "form",
     recipients |-> [t |-> "absent", v |-> <<>>], edited_summary |-> <<>>]

SendEmailRequests ==
    { [route |-> "send_email", is_json |-> FALSE, shape |-> "form",
       recipients |-> r, edited_summary |-> <<>>] : r \in FormRecipients }
    \cup
    { [route |-> "send_email", is_json |-> TRUE, shape |-> "object",
       recipients |-> r, edited_summary |-> <<>>] : r \in JsonRecipients }
    \cup
    { [route |-> "send_email", is_json |-> TRUE, shape |-> sh,
       recipients |-> Absent, edited_summary |-> <<>>] :
         sh \in {"array", "null", "string", "number"} }

DownloadRequests ==
    { [route |-> "download", is_json |-> FALSE, shape |-> "form",
       recipients |-> Absent, edited_summary |-> e] :
         e \in { <<>>, <<"H", "e", "l", "l", "o">> } }

\* jsonify({"ok": ..., "error" | "message": text}), status
Json(status, ok, text) ==
    [kind |-> "json", status |-> status, flash |-> <<>>,
     body |-> <<IF ok THEN "true" ELSE "false">> \o text]

\* send_file(buf, as_attachment=True, download_name="meeting_summary.txt", ...)
Attachment(bytes) ==
    [kind |-> "file", status |-> 200, flash |-> <<>>,
     body |-> <<"meeting_summary.txt", "text/plain">> \o bytes]

MsgNoRecipients == <<"No valid recipient emails.">>
MsgNoSummary == <<"No summary to download.">>
MsgSendFailed(e) == <<"Failed to send email: ", e>>
MsgSent(rcpts) == <<"Summary sent to: ">> \o join(<<",", " ">>, rcpts)
MsgNotConfigured ==
    "SMTP not configured. Set SMTP_HOST, SMTP_USERNAME, SMTP_PASSWORD."

\* data.get("recipients", "")
GetRecipients(r) == IF r.recipients = Absent THEN Str(<<>>) ELSE r.recipients

\* the mutant: the "no valid recipient" check is dropped
NoRecipients_Never(rcpts) == FALSE

\* "if not recipients" (line 190)
NoRecipients(rcpts) == rcpts = <<>>

\* the mutant: "and" where the code has "or"
SmtpNotConfigured_All ==
    SMTP_HOST = "" /\ SMTP_USERNAME = "" /\ SMTP_PASSWORD = ""

\* "if not SMTP_HOST or not SMTP_USERNAME or not SMTP_PASSWORD" (line 89)
SmtpNotConfigured ==
    SMTP_HOST = "" \/ SMTP_USERNAME = "" \/ SMTP_PASSWORD = ""

\* the mutant: port 25 is left out
NeedsStartTls_587Only == SMTP_PORT = 587 /\ server # "SMTP_SSL"

\* "SMTP_PORT in (587, 25) and not isinstance(server, smtplib.SMTP_SSL)"
NeedsStartTls == SMTP_PORT \in {587, 25} /\ server # "SMTP_SSL"

\* the mutant: no "finally", an error leaves send_email_smtp at once
OnSessionError_NoFinally == "caught"

\* try/finally (lines 104-112): an error inside the session goes to quit()
OnSessionError == "quit"

----------------------------------------------------------------------------
(* /send_email and /download: the handlers *)

MailReceive ==
    /\ mpc = "idle"
    /\ \E r \in SendEmailRequests \cup DownloadRequests : mreq' = r
    /\ mpc' = "recv"
    /\ mresp' = NoResponse
    /\ UNCHANGED <<recipients, server, conn, steps, exc, outbox,
                   parseVars, cfgVars, genVars>>

\* download(), lines 170-179
Download ==
    /\ mpc = "recv" /\ mreq.route = "download"
    /\ mresp' = IF mreq.edited_summary = <<>>
                THEN Redirect(MsgNoSummary)
                ELSE Attachment(mreq.edited_summary)
    /\ mpc' = "done"
    /\ UNCHANGED <<mreq, recipients, server, conn, steps, exc, outbox,
                   parseVars, cfgVars, genVars>>

\* send_email(), lines 184-208
SendParse ==
    /\ mpc = "recv" /\ mreq.route = "send_email"
    /\ IF mreq.is_json /\ mreq.shape # "object"
       THEN \* data is not a dict: data.get raises
            /\ mresp' = Unhandled("AttributeError")
            /\ mpc' = "done"
            /\ UNCHANGED recipients
       ELSE LET r == parse_recipients(GetRecipients(mreq))
            IN  IF r.raised # ""
                THEN /\ mresp' = Unhandled(r.raised)
                     /\ mpc' = "done"
                     /\ UNCHANGED recipients
                ELSE /\ recipients' = r.val
                     /\ IF NoRecipients(r.val)
                        THEN /\ mresp' = IF mreq.is_json
                                         THEN Json(400, FALSE, MsgNoRecipients)
                                         ELSE Redirect(MsgNoRecipients)
                             /\ mpc' = "done"
                        ELSE /\ mpc' = "smtp_check"
                             /\ UNCHANGED mresp
    /\ UNCHANGED <<mreq, server, conn, steps, exc, outbox,
                   parseVars, cfgVars, genVars>>

\* send_email_smtp(), lines 89-97
SmtpCheck ==
    /\ mpc = "smtp_check"
    /\ IF SmtpNotConfigured
       THEN exc' = MsgNotConfigured /\ mpc' = "caught"
       ELSE exc' = exc /\ mpc' = "connect"
    /\ UNCHANGED <<mreq, recipients, server, conn, steps, outbox, mresp,
                   parseVars, cfgVars, genVars>>

\* lines 99-102: the constructor connects; when it raises nothing was opened
SmtpConnect ==
    /\ mpc = "connect"
    /\ \E ok \in BOOLEAN :
         IF ok
         THEN /\ server' = IF SMTP_PORT = 465 THEN "SMTP_SSL" ELSE "SMTP"
              /\ conn' = "open"
              /\ mpc' = "ehlo"
              /\ UNCHANGED exc
         ELSE /\ exc' = "ConnectionRefusedError"
              /\ mpc' = "caught"
              /\ UNCHANGED <<server, conn>>
    /\ UNCHANGED <<mreq, recipients, steps, outbox, mresp,
                   parseVars, cfgVars, genVars>>

\* one command of the session: it is issued, and it succeeds or raises
Command(cmd, next, err) ==
    \E ok \in BOOLEAN :
        /\ steps' = Append(steps, [cmd |-> cmd, ok |-> ok])
        /\ IF ok THEN mpc' = next /\ exc' = exc
                 ELSE mpc' = OnSessionError /\ exc' = err

\* line 105
SmtpEhlo ==
    /\ mpc = "ehlo"
    /\ Command("ehlo", IF NeedsStartTls THEN "starttls" ELSE "login",
               "SMTPServerDisconnected")
    /\ UNCHANGED <<mreq, recipients, server, conn, outbox, mresp,
                   parseVars, cfgVars, genVars>>

\* line 107
SmtpStartTls ==
    /\ mpc = "starttls"
    /\ Command("starttls", "ehlo2", "SMTPNotSupportedError")
    /\ UNCHANGED <<mreq, recipients, server, conn, outbox, mresp,
                   parseVars, cfgVars, genVars>>

\* line 108
SmtpEhlo2 ==
    /\ mpc = "ehlo2"
    /\ Command("ehlo", "login", "SMTPServerDisconnected")
    /\ UNCHANGED <<mreq, recipients, server, conn, outbox, mresp,
                   parseVars, cfgVars, genVars>>

\* line 109
SmtpLogin ==
    /\ mpc = "login"
    /\ Command("login", "send_message", "SMTPAuthenticationError")
    /\ UNCHANGED <<mreq, recipients, server, conn, outbox, mresp,
                   parseVars, cfgVars, genVars>>

\* line 110: the message goes to the addresses of its To header (line 94)
SmtpSend ==
    /\ mpc = "send_message"
    /\ Command("send_message", "quit", "SMTPRecipientsRefused")
    /\ outbox' = IF mpc' = "quit" /\ exc' = exc
                 THEN Append(outbox, join(<<",", " ">>, recipients))
                 ELSE outbox
    /\ UNCHANGED <<mreq, recipients, server, conn, mresp,
                   parseVars, cfgVars, genVars>>

\* lines 111-112: quit() closes the socket whether or not the QUIT command
\* succeeds; an error it raises replaces the one in flight
SmtpQuit ==
    /\ mpc = "quit"
    /\ \E ok \in BOOLEAN :
        /\ steps' = Append(steps, [cmd |-> "quit", ok |-> ok])
        /\ exc' = IF ok THEN exc ELSE "SMTPServerDisconnected"
        /\ mpc' = IF exc' = "" THEN "sent" ELSE "caught"
    /\ conn' = "closed"
    /\ UNCHANGED <<mreq, recipients, server, outbox, mresp,
                   parseVars, cfgVars, genVars>>

\* send_email(), lines 212-223
SendRespond ==
    /\ mpc \in {"caught", "sent"}
    /\ mresp' = IF mpc = "caught"
                THEN IF mreq.is_json
                     THEN Json(500, FALSE, MsgSendFailed(exc))
                     ELSE Redirect(MsgSendFailed(exc))
                ELSE IF mreq.is_json
                     THEN Json(200, TRUE, MsgSent(recipients))
                     ELSE Redirect(MsgSent(recipients))
    /\ mpc' = "done"
    /\ UNCHANGED <<mreq, recipients, server, conn, steps, exc, outbox,
                   parseVars, cfgVars, genVars>>

\* the response is with the client; the handler's locals are gone
MailReturn ==
    /\ mpc = "done"
    /\ mpc' = "idle"
    /\ mreq' = NoMailRequest
    /\ recipients' = <<>>
    /\ server' = "none"
    /\ conn' = "never"
    /\ steps' = <<>>
    /\ exc' = ""
    /\ outbox' = <<>>
    /\ UNCHANGED <<mresp, parseVars, cfgVars, genVars>>

----------------------------------------------------------------------------
(* States in which a part of the program is not running *)

ParseIdle ==
    /\ raw = None
    /\ parsed = [raised |-> "", val |-> <<>>]
    /\ ppc = "off"

GenIdle ==
    /\ uploads = << >>
    /\ gpc = [w \in Workers |-> "idle"]
    /\ greq = [w \in Workers |-> NoGenRequest]
    /\ transcript = [w \in Workers |-> <<>>]
    /\ gresp = [w \in Workers |-> NoResponse]

MailIdle ==
    /\ mpc = "idle"
    /\ mreq = NoMailRequest
    /\ recipients = <<>>
    /\ server = "none"
    /\ conn = "never"
    /\ steps = <<>>
    /\ exc = ""
    /\ outbox = <<>>
    /\ mresp = NoResponse

Ports == {465, 587, 25, 2525}

CfgOff ==
    /\ groq_client = FALSE
    /\ SMTP_HOST = "" /\ SMTP_USERNAME = "" /\ SMTP_PASSWORD = ""
    /\ SMTP_PORT = 587

----------------------------------------------------------------------------
(* Specification of /generate served by concurrent workers *)

InitGen ==
    /\ ParseIdle
    /\ MailIdle
    /\ GenIdle
    /\ groq_client \in BOOLEAN
    /\ SMTP_HOST = "" /\ SMTP_USERNAME = "" /\ SMTP_PASSWORD = ""
    /\ SMTP_PORT = 587

NextGen ==
    \E w \in Workers :
        \/ GenReceive(w)
        \/ GenUpload(w)
        \/ GenExtract(w)
        \/ GenSummarize(w)
        \/ GenReturn(w)

SpecGen == InitGen /\ [][NextGen]_vars

----------------------------------------------------------------------------
(* Specification of parse_recipients on its own *)

InitParse ==
    /\ raw \in ParseInputs
    /\ parsed = [raised |-> "", val |-> <<>>]
    /\ ppc = "call"
    /\ CfgOff
    /\ GenIdle
    /\ MailIdle

NextParse == ParseCall

SpecParse == InitParse /\ [][NextParse]_vars

----------------------------------------------------------------------------
(* Specification of /send_email and /download *)

InitMail ==
    /\ ParseIdle
    /\ GenIdle
    /\ MailIdle
    /\ groq_client = FALSE
    /\ SMTP_HOST \in {"", "smtp.example.com"}
    /\ SMTP_USERNAME \in {"", "user"}
    /\ SMTP_PASSWORD \in {"", "secret"}
    /\ SMTP_PORT \in Ports

NextMail ==
    \/ MailReceive
    \/ Download
    \/ SendParse
    \/ SmtpCheck
    \/ SmtpConnect
    \/ SmtpEhlo
    \/ SmtpStartTls
    \/ SmtpEhlo2
    \/ SmtpLogin
    \/ SmtpSend
    \/ SmtpQuit
    \/ SendRespond
    \/ MailReturn

SpecMail == InitMail /\ [][NextMail]_vars

----------------------------------------------------------------------------
(* Properties of /generate *)

\* the extension as the documentation states it: the text after the last
\* '.', lower-cased, is txt, pdf or docx
DocumentedExts ==
    { <<"t", "x", "t">>, <<"p", "d", "f">>, <<"d", "o", "c", "x">> }

ExtIsAllowed(name) ==
    \E k \in 1..Len(name) :
        /\ name[k] = "."
        /\ \A j \in (k + 1)..Len(name) : name[j] # "."
        /\ lower(SubSeq(name, k + 1, Len(name))) \in DocumentedExts

Sanitized(w) == secure_filename(greq[w].filename)

C1_Stored ==
    /\ \A p \in DOMAIN uploads : ExtIsAllowed(p)
    /\ \A w \in Workers : gpc[w] = "saved" => ExtIsAllowed(Sanitized(w))

C1_Rejected ==
    \A w \in Workers :
        ( /\ gpc[w] = "start"
          /\ gpc'[w] # "start"
          /\ HasFile(greq[w])
          /\ ~ExtIsAllowed(Sanitized(w)) )
        => /\ uploads' = uploads
           /\ gpc'[w] = "done"
           /\ gresp'[w].kind = "redirect"
           /\ gresp'[w].flash = MsgUnsupported

\* C1: a file is written to the upload directory or handed to
\* extract_text_from_file only if the extension of its sanitized name is
\* txt, pdf or docx; any other upload ends in a redirect with the
\* "Only .txt, .pdf, and .docx files are supported." notice and leaves the
\* upload directory as it was.
C1_OnlyAllowedFilesPersisted == [](C1_Stored) /\ [][C1_Rejected]_vars

\* a name that loses its '.' by sanitization was rejected while the
\* directory holds an accepted upload
C1_Witness ==
    \E w \in Workers :
        /\ gpc[w] = "done"
        /\ greq[w].filename = <<".", "t", "x", "t">>
        /\ gresp[w].flash = MsgUnsupported
        /\ DOMAIN uploads # {}

\* the handler got to the summarization step (lines 141-165)
Summarized(w) ==
    \/ gpc[w] = "summarize"
    \/ gpc[w] = "done" /\ gresp[w].kind = "page"
    \/ gpc[w] = "done" /\ gresp[w].kind = "redirect"
         /\ gresp[w].flash # MsgUnsupported /\ gresp[w].flash # MsgNoTranscript

AllWhitespace(s) == \A i \in 1..Len(s) : s[i] \in Whitespace

Decided(w) == gpc[w] \in {"summarize", "done"}

CarriesInput(w) ==
    \/ HasFile(greq[w]) /\ ExtIsAllowed(Sanitized(w))
    \/ ~AllWhitespace(greq[w].transcript_text)

NoInputRejected(w) ==
    (~HasFile(greq[w]) /\ greq[w].transcript_text = <<>>)
    => /\ gpc[w] = "done"
       /\ gresp[w].kind = "redirect"
       /\ gresp[w].flash = MsgNoTranscript

\* C3 as stated: summarization is reached exactly when the request carries
\* an allowed uploaded file or non-empty pasted text (pasted text that is
\* all whitespace is read as empty), and a request with
\* neither is redirected with the "Please upload or paste a transcript."
\* notice.
C3_AsStated ==
    \A w \in Workers :
        Decided(w) => /\ Summarized(w) <=> CarriesInput(w)
                      /\ NoInputRejected(w)

\* C3 amended: summarization is reached exactly when the transcript the
\* handler obtained is non-empty.  With an upload the transcript is what
\* extraction returned for an allowed file (none for a rejected file or a
\* failed extraction); without an upload it is the pasted text, which
\* counts as empty when it is all whitespace.  A request with neither is
\* redirected with the "Please upload or paste a transcript." notice.
C3_SummarizeIffTranscript ==
    \A w \in Workers :
        Decided(w) =>
            /\ Summarized(w) <=> transcript[w] # <<>>
            /\ (HasFile(greq[w]) /\ ~ExtIsAllowed(Sanitized(w))) => ~Summarized(w)
            /\ ~HasFile(greq[w]) =>
                  (Summarized(w) <=> ~AllWhitespace(greq[w].transcript_text))
            /\ NoInputRejected(w)

\* an allowed upload with no text in it was turned away although text was
\* pasted as well
C3_Witness ==
    \E w \in Workers :
        /\ gpc[w] = "done"
        /\ HasFile(greq[w]) /\ ExtIsAllowed(Sanitized(w))
        /\ greq[w].transcript_text # <<>>
        /\ gresp[w].flash = MsgNoTranscript

\* C6: the transcript a request extracts is the content of the file that
\* same request uploaded, under every interleaving of /generate requests.
C6_ExtractsOwnUpload ==
    \A w \in Workers :
        (gpc[w] = "summarize" /\ HasFile(greq[w]))
        => transcript[w] = greq[w].content.text

----------------------------------------------------------------------------
(* Properties of parse_recipients *)

DocumentedSeparators == {",", ";", "\n", "\r"}

\* local@domain.tld: one '@', not first; a '.' after it with something in
\* between and something behind; no whitespace anywhere
HasShape(t) ==
    \E a, d \in 1..Len(t) :
        /\ 1 < a /\ a + 1 < d /\ d < Len(t)
        /\ t[a] = "@" /\ t[d] = "."
        /\ \A k \in 1..Len(t) : k # a => (t[k] # "@" /\ t[k] \notin Whitespace)

SetMin(S) == CHOOSE m \in S : \A x \in S : m <= x
SetMax(S) == CHOOSE m \in S : \A x \in S : m >= x

RECURSIVE Ascending(_)
Ascending(S) ==
    IF S = {} THEN <<>> ELSE <<SetMin(S)>> \o Ascending(S \ {SetMin(S)})

\* the tokens of s between runs of separators, trimmed, that have the
\* shape, in the order they start in s
ExpectedRecipients(s) ==
    LET n == Len(s)
        Starts(i) == s[i] \notin DocumentedSeparators
                     /\ (i = 1 \/ s[i - 1] \in DocumentedSeparators)
        End(i) == SetMin({j \in i..n : j = n \/ s[j + 1] \in DocumentedSeparators})
        Trimmed(i) ==
            LET K == {k \in i..End(i) : s[k] \notin Whitespace}
            IN  IF K = {} THEN <<>> ELSE SubSeq(s, SetMin(K), SetMax(K))
        Good == {i \in 1..n : Starts(i) /\ HasShape(Trimmed(i))}
        order == Ascending(Good)
    IN  [k \in 1..Len(order) |-> Trimmed(order[k])]

\* C9: parse_recipients returns exactly the trimmed, non-empty tokens
\* between runs of comma, semicolon, newline and carriage return that have
\* the shape local@domain.tld, in input order and without deduplication;
\* an empty or absent input gives the empty list.
C9_ParseRecipients ==
    ppc = "done" =>
        /\ parsed.raised = ""
        /\ parsed.val = IF raw.t = "str" THEN ExpectedRecipients(raw.v) ELSE <<>>

\* the same address given twice comes back twice
C9_Witness ==
    /\ ppc = "done"
    /\ Len(parsed.val) = 2
    /\ parsed.val[1] = parsed.val[2]

----------------------------------------------------------------------------
(* Properties of /send_email, /download and the SMTP session *)

SessionPcs == {"ehlo", "starttls", "ehlo2", "login", "send_message", "quit"}

\* inside send_email_smtp, or just out of it
InSmtp == mpc \in {"smtp_check", "connect", "caught", "sent"} \cup SessionPcs

ValidOf(r) ==
    IF r.recipients.t = "str" THEN ExpectedRecipients(r.recipients.v) ELSE <<>>

\* C2: send_email_smtp is invoked only if parse_recipients returned at
\* least one address of the right shape, the list passed to it holds only
\* such addresses, and with no valid address no delivery is attempted.
C2_SendOnlyToValid ==
    /\ InSmtp => /\ recipients # <<>>
                 /\ \A i \in 1..Len(recipients) : HasShape(recipients[i])
                 /\ recipients = ValidOf(mreq)
    /\ (mreq.route = "send_email" /\ ValidOf(mreq) = <<>>)
         => /\ ~InSmtp
            /\ steps = <<>> /\ conn = "never" /\ outbox = <<>>

\* a message went out to the two valid addresses of a list that also held
\* an invalid one
C2_Witness ==
    /\ mpc = "sent"
    /\ Len(recipients) = 2
    /\ recipients[1] # recipients[2]
    /\ outbox # <<>>

\* the text of a response: the JSON error/message, or the flashed notice
ResponseText == IF mresp.kind = "json" THEN Tail(mresp.body) ELSE mresp.flash

\* C4: every /send_email request ends in one of three outcomes, decided in
\* this order: no valid recipient (JSON 400 / redirect), delivery raised
\* (JSON 500 / redirect), delivery returned (JSON ok / redirect); a JSON
\* request gets JSON and a form request gets a redirect.
C4_ThreeOutcomes ==
    (mpc = "done" /\ mreq.route = "send_email") =>
        /\ mresp.kind = IF mreq.is_json THEN "json" ELSE "redirect"
        /\ IF ValidOf(mreq) = <<>>
           THEN /\ ResponseText = MsgNoRecipients
                /\ mreq.is_json => (mresp.status = 400 /\ mresp.body[1] = "false")
           ELSE IF exc # ""
           THEN /\ ResponseText = MsgSendFailed(exc)
                /\ mreq.is_json => (mresp.status = 500 /\ mresp.body[1] = "false")
           ELSE /\ ResponseText = MsgSent(ValidOf(mreq))
                /\ mreq.is_json => mresp.body[1] = "true"

\* C5: no request to /download or /send_email ends as an unhandled
\* exception, whatever the shape of the client's input.
C5_NoUnhandledException == mpc = "done" => mresp.kind # "exception"

\* C7: a connection that was opened is closed by the time send_email_smtp
\* returns or raises.
C7_ConnectionReleased == mpc \notin SessionPcs => conn # "open"

\* send_email_smtp raised because login failed, and the connection is closed
C7_Witness ==
    /\ mpc = "caught"
    /\ conn = "closed"
    /\ \E i \in 1..Len(steps) : steps[i].cmd = "login" /\ ~steps[i].ok

AnySmtpSettingEmpty ==
    SMTP_HOST = "" \/ SMTP_USERNAME = "" \/ SMTP_PASSWORD = ""

\* C8: with the SMTP host, username or password empty, send_email_smtp
\* fails before any connection is opened or message sent, and a request
\* with valid recipients gets HTTP 500 JSON (a redirect for a form) whose
\* text contains the configuration message.
C8_NotConfigured ==
    AnySmtpSettingEmpty =>
        /\ conn = "never" /\ steps = <<>> /\ outbox = <<>>
        /\ mpc \notin SessionPcs \cup {"connect", "sent"}
        /\ (mpc = "done" /\ mreq.route = "send_email" /\ ValidOf(mreq) # <<>>)
             => /\ mresp.kind = IF mreq.is_json THEN "json" ELSE "redirect"
                /\ mreq.is_json => (mresp.status = 500 /\ mresp.body[1] = "false")
                /\ \E i \in 1..Len(ResponseText) : ResponseText[i] = MsgNotConfigured

\* only the password is missing and a JSON request with valid recipients
\* was answered 500
C8_Witness ==
    /\ mpc = "done"
    /\ SMTP_HOST # "" /\ SMTP_USERNAME # "" /\ SMTP_PASSWORD = ""
    /\ mreq.is_json
    /\ mresp.status = 500

Issued(i, cmd) == steps[i].cmd = cmd

\* C10: the session's steps come in a fixed order chosen by the port:
\* implicit TLS and no STARTTLS on 465; a plain connection with STARTTLS
\* after the first EHLO and before login on 587 and 25; no STARTTLS on any
\* other port; login before send_message; after a failed step nothing but
\* the closing runs.
C10_SessionOrder ==
    LET n == Len(steps) IN
    /\ conn # "never" => server = IF SMTP_PORT = 465 THEN "SMTP_SSL" ELSE "SMTP"
    /\ steps # <<>> => conn # "never"
    /\ SMTP_PORT \notin {587, 25} => \A i \in 1..n : ~Issued(i, "starttls")
    /\ SMTP_PORT \in {587, 25} =>
         \A i \in 1..n : Issued(i, "login") =>
            \E j \in 1..(i - 1) :
               /\ Issued(j, "starttls") /\ steps[j].ok
               /\ \E k \in 1..(j - 1) : Issued(k, "ehlo")
    /\ \A i \in 1..n : Issued(i, "send_message") =>
            \E j \in 1..(i - 1) : Issued(j, "login") /\ steps[j].ok
    /\ \A i \in 1..n : Issued(i, "starttls") \/ Issued(i, "login") =>
            Issued(1, "ehlo")
    /\ \A i \in 1..(n - 1) : ~steps[i].ok => (i + 1 = n /\ Issued(n, "quit"))
    /\ \A i \in 1..(n - 1) : ~Issued(i, "quit")

\* a message was delivered on port 25
C10_Witness ==
    /\ SMTP_PORT = 25
    /\ mpc = "sent"
    /\ outbox # <<>>

====
